---- MODULE Spec2Model ----
(***************************************************************************)
(* Model of src/app.py: the ingestion core of "Centralna baza troskovnika". *)
(*                                                                         *)
(*   guess_date_from_filename  (lines 36-51)                               *)
(*   normalize_table, find_col (lines 53-96)                               *)
(*   read_xlsx_bytes           (lines 98-111)                              *)
(*   ingest_zip                (lines 113-127)                             *)
(*                                                                         *)
(* A Python str is a sequence of one-character tokens.  A token is a TLA+   *)
(* string holding one ASCII character; the letters outside ASCII that the   *)
(* source uses are named by a digraph: "c^" is c-caron, "C^" its capital.   *)
(* An exception is a value: a function that raises returns a record that    *)
(* says so, and the caller's try/except (or its absence) decides what       *)
(* happens to it.                                                           *)
(***************************************************************************)
EXTENDS Integers, Sequences, FiniteSets, TLC

VARIABLES
    zip,      \* the archive given to ingest_zip: [ok, entries]
    pc,       \* position of the program
    i,        \* ingest_zip: index into z.namelist()
    j,        \* read_xlsx_bytes: index into xls.sheet_names
    bframes,  \* read_xlsx_bytes: frames
    frames,   \* ingest_zip: frames
    result,   \* the value a call returned
    err,      \* the exception that left the call, "none" if none
    handed,   \* history: the indexes of the entries handed to read_xlsx_bytes, in order
    passed,   \* history: the <<entry, sheet>> indexes passed to normalize_table
    arg,      \* argument of a direct call of a helper
    ret       \* what that call returned

vars == <<zip, pc, i, j, bframes, frames, result, err, handed, passed, arg, ret>>

-----------------------------------------------------------------------------
(* Python str operations                                                    *)

Upper == <<"A","B","C","D","E","F","G","H","I","J","K","L","M","N","O","P","Q","R","S","T","U","V","W","X","Y","Z","C^">>
LowerOf == <<"a","b","c","d","e","f","g","h","i","j","k","l","m","n","o","p","q","r","s","t","u","v","w","x","y","z","c^">>
DigitChars == <<"0","1","2","3","4","5","6","7","8","9">>

UpperSet == {Upper[k] : k \in DOMAIN Upper}
LetterSet == UpperSet \cup {LowerOf[k] : k \in DOMAIN LowerOf}
DigitSet == {DigitChars[k] : k \in DOMAIN DigitChars}
LowerMap == [c \in UpperSet |-> LowerOf[CHOOSE k \in DOMAIN Upper : Upper[k] = c]]
DigitValue == [c \in DigitSet |-> (CHOOSE k \in DOMAIN DigitChars : DigitChars[k] = c) - 1]

\* str.lower(), one character
LowerChar(c) == IF c \in UpperSet THEN LowerMap[c] ELSE c

\* str.lower()
Lower(s) == [k \in DOMAIN s |-> LowerChar(s[k])]

\* whitespace, as str.strip() and the regex class \s see it
IsSpace(c) == c \in {" ", "\t", "\n"}

\* \d
IsDigit(c) == c \in DigitSet

\* \w : letters, digits, underscore
IsWord(c) == c \in DigitSet \cup LetterSet \cup {"_"}

\* s[k], or the empty token past either end
At(s, k) == IF k \in DOMAIN s THEN s[k] ELSE ""

\* str.strip()
Strip(s) ==
    LET keep == {k \in DOMAIN s : ~IsSpace(s[k])}
    IN  IF keep = {} THEN <<>>
        ELSE LET lo == CHOOSE k \in keep : \A m \in keep : k <= m
                 hi == CHOOSE k \in keep : \A m \in keep : m <= k
             IN  SubSeq(s, lo, hi)

\* str.startswith(p)
StartsWith(s, p) == Len(p) <= Len(s) /\ SubSeq(s, 1, Len(p)) = p

\* str.endswith(p)
EndsWith(s, p) == Len(p) <= Len(s) /\ SubSeq(s, Len(s) - Len(p) + 1, Len(s)) = p

\* p in s
Contains(s, p) ==
    \E k \in 0..(Len(s) - Len(p)) : SubSeq(s, k + 1, k + Len(p)) = p

\* int(s) for a string of digits
RECURSIVE ToInt(_)
ToInt(s) ==
    IF s = <<>> THEN 0
    ELSE 10 * ToInt(SubSeq(s, 1, Len(s) - 1)) + DigitValue[s[Len(s)]]

\* concatenation of a sequence of sequences
RECURSIVE Flatten(_)
Flatten(ss) == IF ss = <<>> THEN <<>> ELSE Head(ss) \o Flatten(Tail(ss))

-----------------------------------------------------------------------------
(* guess_date_from_filename                                                 *)

NoMatch == [at |-> 0, y |-> 0, mo |-> 0, d |-> 0]
NoDate == [kind |-> "none", y |-> 0, mo |-> 0, d |-> 0]
DateError == [kind |-> "ValueError", y |-> 0, mo |-> 0, d |-> 0]

\* [-_.]
IsDateSep(c) == c \in {"-", "_", "."}

\* 20\d{2} at position k
YearAt(s, k) ==
    At(s, k) = "2" /\ At(s, k + 1) = "0" /\ IsDigit(At(s, k + 2)) /\ IsDigit(At(s, k + 3))

\* re.search scans from the left: the smallest of the positions where the
\* pattern matches, 0 if there is none
Leftmost(positions) ==
    IF positions = {} THEN 0
    ELSE CHOOSE k \in positions : \A m \in positions : k <= m

\* (20\d{2})[-_.](\d{1,2})[-_.](\d{1,2}) matched at k with a month of ml digits;
\* the day group is greedy and nothing follows it
IsoAt(s, k, ml) ==
    /\ YearAt(s, k)
    /\ IsDateSep(At(s, k + 4))
    /\ \A m \in 0..(ml - 1) : IsDigit(At(s, k + 5 + m))
    /\ IsDateSep(At(s, k + 5 + ml))
    /\ IsDigit(At(s, k + 6 + ml))

IsoLen(s, k) == IF IsoAt(s, k, 2) THEN 2 ELSE 1

\* re.search(r"(20\d{2})[-_.](\d{1,2})[-_.](\d{1,2})", s)
SearchIso(s) ==
    LET k == Leftmost({p \in DOMAIN s : IsoAt(s, p, 2) \/ IsoAt(s, p, 1)})
    IN  IF k = 0 THEN NoMatch
        ELSE LET ml == IsoLen(s, k)
                 ds == k + 6 + ml
                 dl == IF IsDigit(At(s, ds + 1)) THEN 2 ELSE 1
             IN  [at |-> k,
                  y  |-> ToInt(SubSeq(s, k, k + 3)),
                  mo |-> ToInt(SubSeq(s, k + 5, k + 4 + ml)),
                  d  |-> ToInt(SubSeq(s, ds, ds + dl - 1))]

\* (\d{1,2})[.](\d{1,2})[.](20\d{2}) matched at k, day of dl and month of ml digits
EuAt(s, k, dl, ml) ==
    /\ \A m \in 0..(dl - 1) : IsDigit(At(s, k + m))
    /\ At(s, k + dl) = "."
    /\ \A m \in 0..(ml - 1) : IsDigit(At(s, k + dl + 1 + m))
    /\ At(s, k + dl + 1 + ml) = "."
    /\ YearAt(s, k + dl + ml + 2)

\* re.search(r"(\d{1,2})[.](\d{1,2})[.](20\d{2})", s)
SearchEu(s) ==
    LET k == Leftmost({p \in DOMAIN s : \E dl \in 1..2 : \E ml \in 1..2 : EuAt(s, p, dl, ml)})
    IN  IF k = 0 THEN NoMatch
        ELSE LET dl == IF \E ml \in 1..2 : EuAt(s, k, 2, ml) THEN 2 ELSE 1
                 ml == IF EuAt(s, k, dl, 2) THEN 2 ELSE 1
             IN  [at |-> k,
                  y  |-> ToInt(SubSeq(s, k + dl + ml + 2, k + dl + ml + 5)),
                  mo |-> ToInt(SubSeq(s, k + dl + 1, k + dl + ml)),
                  d  |-> ToInt(SubSeq(s, k, k + dl - 1))]

\* (20\d{2})(\d{2})(\d{2}) matched at k
CompactAt(s, k) ==
    YearAt(s, k) /\ \A m \in 4..7 : IsDigit(At(s, k + m))

\* re.search(r"(20\d{2})(\d{2})(\d{2})", s)
SearchCompact(s) ==
    LET k == Leftmost({p \in DOMAIN s : CompactAt(s, p)})
    IN  IF k = 0 THEN NoMatch
        ELSE [at |-> k,
              y  |-> ToInt(SubSeq(s, k, k + 3)),
              mo |-> ToInt(SubSeq(s, k + 4, k + 5)),
              d  |-> ToInt(SubSeq(s, k + 6, k + 7))]

\* calendar.monthrange: the days of month mo of year y
DaysInMonth(y, mo) ==
    IF mo = 2
    THEN (IF y % 4 = 0 /\ (y % 100 # 0 \/ y % 400 = 0) THEN 29 ELSE 28)
    ELSE IF mo \in {4, 6, 9, 11} THEN 30 ELSE 31

\* whether datetime(y, mo, d) constructs
ValidDate(y, mo, d) ==
    /\ y \in 1..9999
    /\ mo \in 1..12
    /\ d \in 1..DaysInMonth(y, mo)

\* datetime(y, mo, d).date(): the date, or ValueError
MakeDate(m) ==
    IF ValidDate(m.y, m.mo, m.d)
    THEN [kind |-> "date", y |-> m.y, mo |-> m.mo, d |-> m.d]
    ELSE DateError

guess_date_from_filename(name) ==
    LET iso == SearchIso(name)
    IN  IF iso.at # 0 THEN MakeDate(iso)
        ELSE LET eu == SearchEu(name)
             IN  IF eu.at # 0 THEN MakeDate(eu)
                 ELSE LET compact == SearchCompact(name)
                      IN  IF compact.at # 0 THEN MakeDate(compact) ELSE NoDate

-----------------------------------------------------------------------------
(* normalize_table                                                          *)
(*                                                                         *)
(* A DataFrame read from a sheet is [columns, data]: the labels and the      *)
(* rows, each row one cell per label.  A cell is [na, s]: an empty cell      *)
(* (NaN) or a text.  The labels of a frame are distinct, as pandas makes     *)
(* them when it reads a header row.  A frame the program builds is           *)
(* [cols, rows]: cols says whether it has the output columns at all          *)
(* (pd.DataFrame() has none), rows are records.                              *)

DescOptions ==
    << <<"O","p","i","s">>,
       <<"N","a","z","i","v">>,
       <<"S","t","a","v","k","a">>,
       <<"O","p","i","s"," ","s","t","a","v","k","e">> >>
UnitOptions ==
    << <<"J","M">>,
       <<"J",".","M",".">>,
       <<"J","e","d"," ","m","j">>,
       <<"J","e","d","."," ","m","j","e","r","e">>,
       <<"M","j","e","r","n","a"," ","j","e","d","i","n","i","c","a">> >>
QtyOptions ==
    << <<"K","o","l","i","c^","i","n","a">>,
       <<"K","o","l">>,
       <<"Q","t","y">> >>
PriceOptions ==
    << <<"J","e","d","i","n","i","c^","n","a"," ","c","i","j","e","n","a">>,
       <<"J","e","d","."," ","c","i","j","e","n","a">>,
       <<"C","i","j","e","n","a">>,
       <<"U","n","i","t"," ","p","r","i","c","e">> >>
TotalOptions ==
    << <<"I","z","n","o","s">>,
       <<"U","k","u","p","n","o">>,
       <<"V","r","i","j","e","d","n","o","s","t">>,
       <<"T","o","t","a","l">> >>
HeaderLabels ==
    { <<"o","p","i","s">>, <<"s","t","a","v","k","a">>, <<"n","a","z","i","v">> }
NanText == <<"n","a","n">>

NaN == [na |-> TRUE, s |-> <<>>]
Text(s) == [na |-> FALSE, s |-> s]
NumNaN == [na |-> TRUE, n |-> 0]
EmptyFrame == [cols |-> FALSE, rows |-> <<>>]
NotFound == [found |-> FALSE, col |-> <<>>]

\* the smallest member of a non-empty set of numbers
Min(S) == CHOOSE k \in S : \A m \in S : k <= m

\* "for o in options: for c in df.columns: if <test>: return c": hit[a][b]
\* says whether the test holds of option a and column b; the first hit in loop
\* order decides
FirstHit(columns, options, hit) ==
    LET os == {a \in DOMAIN options : \E b \in DOMAIN columns : hit[a][b]}
    IN  IF os = {} THEN NotFound
        ELSE LET a == Min(os)
                 b == Min({c \in DOMAIN columns : hit[a][c]})
             IN  [found |-> TRUE, col |-> columns[b]]

\* the fuzzy loops with the columns outermost: the first column in sheet order
\* that contains any option
FuzzyColumnMajor(columns, options) ==
    LET bs == {b \in DOMAIN columns :
                  \E a \in DOMAIN options : Contains(Lower(columns[b]), Lower(options[a]))}
    IN  IF bs = {} THEN NotFound ELSE [found |-> TRUE, col |-> columns[Min(bs)]]

\* find_col, second pair of loops
FuzzyMatch(columns, options) ==
    FirstHit(columns, options,
             [a \in DOMAIN options |-> [b \in DOMAIN columns |->
                 Contains(Lower(columns[b]), Lower(options[a]))]])

\* find_col, first pair of loops
ExactMatch(columns, options) ==
    FirstHit(columns, options,
             [a \in DOMAIN options |-> [b \in DOMAIN columns |->
                 Lower(Strip(columns[b])) = Lower(options[a])]])

find_col(columns, options) ==
    LET exact == ExactMatch(columns, options)
    IN  IF exact.found THEN exact ELSE FuzzyMatch(columns, options)

\* df.rename(columns={c: str(c).strip()})
RenameColumns(columns) == [k \in DOMAIN columns |-> Strip(columns[k])]

\* df[c] of one row: the cell under label c
CellOf(columns, row, c) == row[CHOOSE k \in DOMAIN columns : columns[k] = c]

\* astype(str) of one cell: an empty cell becomes the text "nan"
AsStr(cell) == IF cell.na THEN NanText ELSE cell.s

\* pd.to_numeric(errors="coerce") of one cell.  Cells are empty, decimal
\* digit strings or texts with a letter in them; anything but digits is NaN.
ToNumeric(cell) ==
    IF ~cell.na /\ cell.s # <<>> /\ \A k \in DOMAIN cell.s : IsDigit(cell.s[k])
    THEN [na |-> FALSE, n |-> ToInt(cell.s)]
    ELSE NumNaN

\* out["opis"].str.strip().ne("")
HasDescription(opis) == Strip(opis) # <<>>

\* the header test with the case kept: opis.isin([...]) without str.lower()
IsHeaderRepeatCaseSensitive(opis) == opis \in HeaderLabels

\* out["opis"].str.lower().isin(["opis", "stavka", "naziv"])
IsHeaderRepeat(opis) == Lower(opis) \in HeaderLabels

\* the columns of out before the two filters, one record per row of df
OutRows(df, columns, c_desc, c_unit, c_qty, c_up, c_tot, source_file, sheet, datum) ==
    LET Num(c, row) == IF c.found THEN ToNumeric(CellOf(columns, row, c.col)) ELSE NumNaN
    IN  [k \in DOMAIN df.data |->
            [opis        |-> AsStr(CellOf(columns, df.data[k], c_desc.col)),
             jm          |-> IF c_unit.found
                             THEN AsStr(CellOf(columns, df.data[k], c_unit.col))
                             ELSE <<>>,
             kolicina    |-> Num(c_qty, df.data[k]),
             jed_cijena  |-> Num(c_up, df.data[k]),
             iznos       |-> Num(c_tot, df.data[k]),
             source_file |-> source_file,
             sheet       |-> sheet,
             datum       |-> datum]]

\* normalize_table: [raised, frame].  raised is the ValueError of
\* guess_date_from_filename leaving the function.
normalize_table(df, source_file, sheet) ==
    LET columns == RenameColumns(df.columns)
        c_desc == find_col(columns, DescOptions)
    IN  IF ~c_desc.found THEN [raised |-> FALSE, frame |-> EmptyFrame]
        ELSE LET datum == guess_date_from_filename(source_file)
             IN  IF datum.kind = "ValueError" THEN [raised |-> TRUE, frame |-> EmptyFrame]
                 ELSE LET out == OutRows(df, columns, c_desc,
                                         find_col(columns, UnitOptions),
                                         find_col(columns, QtyOptions),
                                         find_col(columns, PriceOptions),
                                         find_col(columns, TotalOptions),
                                         source_file, sheet, datum)
                      IN  [raised |-> FALSE,
                           frame  |-> [cols |-> TRUE,
                                       rows |-> SelectSeq(SelectSeq(out, LAMBDA r : HasDescription(r.opis)),
                                                          LAMBDA r : ~IsHeaderRepeat(r.opis))]]

-----------------------------------------------------------------------------
(* read_xlsx_bytes and ingest_zip: helpers                                  *)
(*                                                                         *)
(* A sheet of a workbook is [name, parseOk, header, data]: parseOk says      *)
(* whether xls.parse(sh) returns, header is the sheet's first row (the       *)
(* labels), data the rows under it; a sheet with no rows at all has no       *)
(* header.  An archive entry is [name, valid, sheets]: valid says whether    *)
(* its bytes are a workbook pd.ExcelFile opens.                              *)

XlsxSuffix == <<".","x","l","s","x">>
LockPrefix == <<"~","$">>
MinRows == 3

\* xls.parse(sh): the first row becomes the labels
Parse(sh) == [columns |-> sh.header, data |-> sh.data]

\* the size test with the header row counted among the rows
TooSmallCountingHeader(raw) ==
    Len(raw.data) + (IF raw.columns = <<>> THEN 0 ELSE 1) < MinRows

\* raw.shape[0] < 3
TooSmall(raw) == Len(raw.data) < MinRows

\* pd.concat(frames, ignore_index=True)
Concat(fs) ==
    [cols |-> \E k \in DOMAIN fs : fs[k].cols,
     rows |-> Flatten([k \in DOMAIN fs |-> fs[k].rows])]

\* the body of the loop of read_xlsx_bytes for one sheet: the frames it appends
SheetFrames(sh, filename) ==
    IF ~sh.parseOk THEN <<>>
    ELSE IF TooSmall(Parse(sh)) THEN <<>>
    ELSE LET r == normalize_table(Parse(sh), filename, sh.name)
         IN  IF r.raised THEN <<>> ELSE <<r.frame>>

\* whether the loop body reaches the call of normalize_table
ReachesNormalize(sh) == sh.parseOk /\ ~TooSmall(Parse(sh))

\* name.lower().endswith(".xlsx") and not name.startswith("~$")
Selected(name) == EndsWith(Lower(name), XlsxSuffix) /\ ~StartsWith(name, LockPrefix)

\* .str.replace(r"\s+", " ", regex=True)
RECURSIVE CollapseSpaces(_)
CollapseSpaces(s) ==
    IF s = <<>> THEN <<>>
    ELSE IF IsSpace(Head(s))
         THEN IF Len(s) > 1 /\ IsSpace(s[2])
              THEN CollapseSpaces(Tail(s))
              ELSE <<" ">> \o CollapseSpaces(Tail(s))
         ELSE <<Head(s)>> \o CollapseSpaces(Tail(s))

\* .str.replace(r"[^\w\s<diacritics>]", "", regex=True)
StripPunctuation(s) == SelectSeq(s, LAMBDA c : IsWord(c) \/ IsSpace(c))

\* out["opis_norm"]
OpisNorm(opis) == StripPunctuation(CollapseSpaces(Lower(opis)))

WithOpisNorm(r) ==
    [opis |-> r.opis, jm |-> r.jm, kolicina |-> r.kolicina, jed_cijena |-> r.jed_cijena,
     iznos |-> r.iznos, source_file |-> r.source_file, sheet |-> r.sheet,
     datum |-> r.datum, opis_norm |-> OpisNorm(r.opis)]

-----------------------------------------------------------------------------
(* ingest_zip, with read_xlsx_bytes inlined at its call                     *)

Entry == zip.entries[i]
Pending == [done |-> FALSE, val |-> "none"]
Returned(v) == [done |-> TRUE, val |-> v]

\* z = zipfile.ZipFile(io.BytesIO(zip_bytes)); frames = []
ZipOpen ==
    /\ pc = "start"
    /\ IF zip.ok
       THEN pc' = "loop" /\ err' = err
       ELSE pc' = "raised" /\ err' = "BadZipFile"
    /\ UNCHANGED <<zip, i, j, bframes, frames, result, handed, passed, arg, ret>>

\* for name in z.namelist(): if name.lower().endswith(".xlsx") and not name.startswith("~$")
NameFilter ==
    /\ pc = "loop"
    /\ i <= Len(zip.entries)
    /\ IF Selected(Entry.name)
       THEN pc' = "read" /\ i' = i /\ handed' = Append(handed, i)
       ELSE pc' = "loop" /\ i' = i + 1 /\ handed' = handed
    /\ UNCHANGED <<zip, j, bframes, frames, result, err, passed, arg, ret>>

\* read_xlsx_bytes: xls = pd.ExcelFile(io.BytesIO(xlsx_bytes)); frames = []
\* The constructor is outside every try: its exception leaves ingest_zip.
ExcelOpen ==
    /\ pc = "read"
    /\ IF Entry.valid
       THEN pc' = "sheets" /\ err' = err
       ELSE pc' = "raised" /\ err' = "ExcelFileError"
    /\ j' = 1
    /\ bframes' = <<>>
    /\ UNCHANGED <<zip, i, frames, result, handed, passed, arg, ret>>

\* read_xlsx_bytes: one pass of "for sh in xls.sheet_names", try and except included
SheetStep ==
    /\ pc = "sheets"
    /\ j <= Len(Entry.sheets)
    /\ bframes' = bframes \o SheetFrames(Entry.sheets[j], Entry.name)
    /\ passed' = IF ReachesNormalize(Entry.sheets[j]) THEN Append(passed, <<i, j>>) ELSE passed
    /\ j' = j + 1
    /\ UNCHANGED <<zip, pc, i, frames, result, err, handed, arg, ret>>

\* read_xlsx_bytes returns (concat or pd.DataFrame()); ingest_zip appends it
BookReturn ==
    /\ pc = "sheets"
    /\ j > Len(Entry.sheets)
    /\ frames' = Append(frames, IF bframes # <<>> THEN Concat(bframes) ELSE EmptyFrame)
    /\ bframes' = <<>>
    /\ i' = i + 1
    /\ pc' = "loop"
    /\ UNCHANGED <<zip, j, result, err, handed, passed, arg, ret>>

\* ingest_zip after the loop: concat, opis_norm, return.  out["opis"] of a
\* frame without columns is a KeyError.
Finish ==
    /\ pc = "loop"
    /\ i > Len(zip.entries)
    /\ IF frames = <<>>
       THEN pc' = "returned" /\ result' = EmptyFrame /\ err' = err
       ELSE IF ~Concat(frames).cols
            THEN pc' = "raised" /\ err' = "KeyError" /\ result' = result
            ELSE /\ pc' = "returned"
                 /\ err' = err
                 /\ result' = [cols |-> TRUE,
                               rows |-> [k \in DOMAIN Concat(frames).rows |->
                                            WithOpisNorm(Concat(frames).rows[k])]]
    /\ UNCHANGED <<zip, i, j, bframes, frames, handed, passed, arg, ret>>

Next == ZipOpen \/ NameFilter \/ ExcelOpen \/ SheetStep \/ BookReturn \/ Finish

\* a direct call normalize_table(df, source_file, sheet), made once ingest_zip
\* has ended (the function is pure: when it is called changes nothing)
NormalizeCall ==
    /\ pc \in {"returned", "raised"}
    /\ ~ret.done
    /\ ret' = Returned(normalize_table(arg.df, arg.source_file, arg.sheet))
    /\ UNCHANGED <<zip, pc, i, j, bframes, frames, result, err, handed, passed, arg>>

\* a direct call guess_date_from_filename(name)
GuessCall ==
    /\ ~ret.done
    /\ ret' = Returned(guess_date_from_filename(arg))
    /\ UNCHANGED <<zip, pc, i, j, bframes, frames, result, err, handed, passed, arg>>

\* find_col(options) inside normalize_table, df.columns being the renamed labels
FindColCall ==
    /\ ~ret.done
    /\ ret' = Returned(find_col(RenameColumns(arg.columns), arg.options))
    /\ UNCHANGED <<zip, pc, i, j, bframes, frames, result, err, handed, passed, arg>>

-----------------------------------------------------------------------------
(* Inputs                                                                   *)

MaxEntries == 2
MaxSheets == 2
MaxRows == 3
MaxChunks == 2
MaxCols == 3
MaxOptions == 2

SeqsUpTo(S, n) == UNION {[1..k -> S] : k \in 0..n}

HeaderNaziv ==
    << <<"N","a","z","i","v">>, <<"J",".","M",".">>, <<"K","o","l">>, <<"C","i","j","e","n","a">>, <<"U","k","u","p","n","o">> >>
HeaderOpis ==
    << <<"R","b">>, <<" ","O","p","i","s"," ">>, <<"J","e","d","."," ","m","j","e","r","e">>, <<"K","o","l">>, <<"I","z","n","o","s">> >>
HeaderNoDesc ==
    << <<"R","b">>, <<"J","M">>, <<"K","o","l">>, <<"C","i","j","e","n","a">>, <<"I","z","n","o","s">> >>
RowBeton ==
    << Text(<<"B","e","t","o","n">>), Text(<<"m","3">>), Text(<<"2">>), Text(<<"1","0","0">>), Text(<<"2","0","0">>) >>
RowHeaderRepeat ==
    << Text(<<"N","a","z","i","v">>), Text(<<"J",".","M",".">>), Text(<<"K","o","l">>), Text(<<"C","i","j","e","n","a">>), Text(<<"U","k","u","p","n","o">>) >>
RowNoDescription ==
    << NaN, NaN, Text(<<"k","o","m">>), Text(<<"4">>), Text(<<"8">>) >>
RowPaddedLabel ==
    << Text(<<" ","O","p","i","s"," ">>), Text(<<" ","O","p","i","s"," ">>), Text(<<"k","o","m">>), Text(<<"1">>), Text(<<"5">>) >>
RowSpaces ==
    << Text(<<" "," ">>), Text(<<" "," ">>), Text(<<"k","o","m">>), Text(<<"x">>), Text(<<"7">>) >>
RowUpperLabel ==
    << Text(<<"S","T","A","V","K","A">>), Text(<<"o","p","i","s">>), NaN, Text(<<"3">>), NaN >>

NamePlain == <<"t","r","o","s","a","k",".","x","l","s","x">>
NameLock == <<"~","$","t","r","o","s","a","k",".","x","l","s","x">>
NameLockInFolder == <<"d","/","~","$","t","r","o","s","a","k",".","x","l","s","x">>
NameUpper == <<"T",".","X","L","S","X">>
NameOther == <<"t",".","t","x","t">>
NameBadDate == <<"t","_","2","0","2","5","-","1","3","-","0","1",".","x","l","s","x">>
NameEuDate == <<"t","_","1","9",".","0","1",".","2","0","2","5",".","x","l","s","x">>

Sheet(name, parseOk, header, data) ==
    [name |-> name, parseOk |-> parseOk, header |-> header, data |-> data]

\* the sheets of the archives ingest_zip is run on
ShGood == Sheet("List1", TRUE, HeaderNaziv, <<RowBeton, RowHeaderRepeat, RowUpperLabel>>)
ShSmall == Sheet("Mali", TRUE, HeaderNaziv, <<RowBeton, RowHeaderRepeat>>)
ShNoDesc == Sheet("Info", TRUE, HeaderNoDesc, <<RowBeton, RowBeton, RowBeton>>)
ShBroken == Sheet("Graf", FALSE, HeaderNaziv, <<RowBeton, RowBeton, RowBeton>>)
ShAllDropped == Sheet("Prazno", TRUE, HeaderNaziv, <<RowHeaderRepeat, RowSpaces, RowUpperLabel>>)
SheetPool == {ShGood, ShSmall, ShNoDesc, ShBroken, ShAllDropped}

NotAWorkbook(name) == [name |-> name, valid |-> FALSE, sheets |-> <<>>]
Workbook(name, sheets) == [name |-> name, valid |-> TRUE, sheets |-> sheets]

\* entries whose name the filter may let through come with every content (a
\* workbook has at least one sheet); the others are never read
EntryPool ==
    {NotAWorkbook(n) : n \in {NameLock, NameOther, NamePlain, NameLockInFolder, NameUpper,
                              NameBadDate}}
    \cup {Workbook(n, ss) : n \in {NamePlain, NameLockInFolder, NameUpper, NameBadDate},
                            ss \in SeqsUpTo(SheetPool, MaxSheets) \ {<<>>}}

Archives ==
    {[ok |-> FALSE, entries |-> <<>>]}
    \cup {[ok |-> TRUE, entries |-> es] : es \in SeqsUpTo(EntryPool, MaxEntries)}

\* the sheets of the one-sheet workbooks: a header and up to MaxRows data rows,
\* or no row at all
RowPool == {RowBeton, RowHeaderRepeat, RowNoDescription, RowPaddedLabel, RowSpaces, RowUpperLabel}
SheetsOfRows ==
    {Sheet("List1", TRUE, <<>>, <<>>)}
    \cup {Sheet("List1", TRUE, h, d) : h \in {HeaderNaziv, HeaderOpis, HeaderNoDesc},
                                       d \in SeqsUpTo(RowPool, MaxRows)}

-----------------------------------------------------------------------------
(* Specifications                                                           *)

Idle ==
    /\ i = 1
    /\ j = 1
    /\ bframes = <<>>
    /\ frames = <<>>
    /\ result = EmptyFrame
    /\ err = "none"
    /\ handed = <<>>
    /\ passed = <<>>

\* ingest_zip(zip_bytes) on an archive
Init ==
    /\ zip \in Archives
    /\ pc = "start"
    /\ Idle
    /\ arg = "none"
    /\ ret = Returned("none")

Spec == Init /\ [][Next]_vars

\* ingest_zip on an archive of one one-sheet workbook, and normalize_table
\* called on that sheet's table directly
InitSheet ==
    /\ \E sh \in SheetsOfRows : \E n \in {NamePlain, NameEuDate} :
          /\ zip = [ok |-> TRUE, entries |-> <<Workbook(n, <<sh>>)>>]
          /\ arg = [df |-> Parse(sh), source_file |-> n, sheet |-> sh.name]
    /\ pc = "start"
    /\ Idle
    /\ ret = Pending

NextSheet == Next \/ NormalizeCall

SpecSheet == InitSheet /\ [][NextSheet]_vars

\* file names for guess_date_from_filename: up to MaxChunks chunks, each a date
\* in one of the three notations or a piece of text, and the extension
Years == { <<"2","0","2","4">>, <<"2","0","2","5">> }
Months == { <<"2">>, <<"0","2">>, <<"1","2">>, <<"1","3">> }
Days == { <<"1">>, <<"2","9">>, <<"3","1">>, <<"3","2">> }
SepPairs == { <<"-","-">>, <<"_",".">>, <<".",".">> }
IsoChunks == {y \o <<s[1]>> \o m \o <<s[2]>> \o d : y \in Years, m \in Months, d \in Days, s \in SepPairs}
EuChunks == {d \o <<".">> \o m \o <<".">> \o y : y \in Years, m \in Months, d \in Days}
CompactChunks ==
    {y \o m \o d : y \in Years, m \in {<<"0","2">>, <<"1","2">>, <<"1","3">>},
                   d \in {<<"0","1">>, <<"2","9">>, <<"3","1">>, <<"3","2">>}}
TextChunks == { <<"t">>, <<"_">>, <<"7">> }
Chunks == IsoChunks \cup EuChunks \cup CompactChunks \cup TextChunks
FileNames == {Flatten(cs) \o XlsxSuffix : cs \in SeqsUpTo(Chunks, MaxChunks)}

\* guess_date_from_filename(name) on a file name
InitDate ==
    /\ zip = [ok |-> TRUE, entries |-> <<>>]
    /\ pc = "idle"
    /\ Idle
    /\ arg \in FileNames
    /\ ret = Pending

SpecDate == InitDate /\ [][GuessCall]_vars

\* header rows and candidate lists for find_col
LabelPool ==
    { <<"O","p","i","s">>,
      <<" ","N","A","Z","I","V"," ">>,
      <<"N","a","z","i","v"," ","r","o","b","e">>,
      <<"O","p","i","s"," ","r","a","d","o","v","a">>,
      <<"S","t","a","v","k","a">>,
      <<"R","b">> }
CandidatePool == { DescOptions[1], DescOptions[2], DescOptions[3] }
Distinct(s) == \A a, b \in DOMAIN s : a # b => s[a] # s[b]
HeaderRows == {h \in SeqsUpTo(LabelPool, MaxCols) : Distinct(h)}
CandidateLists ==
    {DescOptions} \cup {o \in SeqsUpTo(CandidatePool, MaxOptions) : o # <<>> /\ Distinct(o)}

\* find_col(options) on the labels of a sheet
InitFindCol ==
    /\ zip = [ok |-> TRUE, entries |-> <<>>]
    /\ pc = "idle"
    /\ Idle
    /\ arg \in {[columns |-> h, options |-> o] : h \in HeaderRows, o \in CandidateLists}
    /\ ret = Pending

SpecFindCol == InitFindCol /\ [][FindColCall]_vars

-----------------------------------------------------------------------------
(* Claims                                                                   *)

Terminated == pc \in {"returned", "raised"}

\* a row of the master dataset without its derived opis_norm
RowCore(r) ==
    [opis |-> r.opis, jm |-> r.jm, kolicina |-> r.kolicina, jed_cijena |-> r.jed_cijena,
     iznos |-> r.iznos, source_file |-> r.source_file, sheet |-> r.sheet, datum |-> r.datum]

\* the rows one sheet contributes when it is the only thing processed
SheetRowsAlone(sh, filename) ==
    LET fs == SheetFrames(sh, filename) IN IF fs = <<>> THEN <<>> ELSE fs[1].rows

\* the rows one archive entry contributes alone; nothing if it is not selected
\* or is not a workbook
EntryRowsAlone(e) ==
    IF Selected(e.name) /\ e.valid
    THEN Flatten([k \in DOMAIN e.sheets |-> SheetRowsAlone(e.sheets[k], e.name)])
    ELSE <<>>

ExpectedRows(z) == Flatten([k \in DOMAIN z.entries |-> EntryRowsAlone(z.entries[k])])

\* C1: fault isolation.  On a readable archive in which some sheet has rows to
\* give, ingest_zip returns, and returns exactly the rows every sheet and file
\* contributes alone, an entry that is not a workbook and a sheet that fails
\* contributing none; no failure leaves ingest_zip.
C1_FaultIsolation ==
    (Terminated /\ zip.ok /\ ExpectedRows(zip) # <<>>)
        => /\ pc = "returned"
           /\ [k \in DOMAIN result.rows |-> RowCore(result.rows[k])] = ExpectedRows(zip)

\* C2: when no document yields any row (every selected entry being a workbook),
\* ingest_zip returns an empty result and raises nothing.
C2_EmptyResult ==
    (/\ Terminated
     /\ zip.ok
     /\ \A k \in DOMAIN zip.entries : Selected(zip.entries[k].name) => zip.entries[k].valid
     /\ ExpectedRows(zip) = <<>>)
        => pc = "returned" /\ result.rows = <<>>

\* the rows a workbook retains when its file name carries no date at all, under
\* the name it has
RowsDateAbsent(e) ==
    Flatten([k \in DOMAIN e.sheets |->
                [m \in DOMAIN SheetRowsAlone(e.sheets[k], NamePlain) |->
                    [SheetRowsAlone(e.sheets[k], NamePlain)[m] EXCEPT !.source_file = e.name]]])

\* C3: a workbook whose file name holds digits that match a date pattern but are
\* no calendar date still contributes every row it would otherwise retain, each
\* with datum absent.
C3_BadDateNonFatal ==
    \A k \in DOMAIN frames :
        guess_date_from_filename(zip.entries[handed[k]].name).kind = "ValueError"
            => frames[k].rows = RowsDateAbsent(zip.entries[handed[k]])

\* the date of the first family, in the order ISO, European, compact, that
\* matches with digits that form a calendar date
FirstValidFamily(name) ==
    LET ms == <<SearchIso(name), SearchEu(name), SearchCompact(name)>>
        ok == {k \in 1..3 : ms[k].at # 0 /\ ValidDate(ms[k].y, ms[k].mo, ms[k].d)}
    IN  IF ok = {} THEN NoDate
        ELSE LET m == ms[Min(ok)] IN [kind |-> "date", y |-> m.y, mo |-> m.mo, d |-> m.d]

\* C4: guess_date_from_filename returns the date of the first pattern family
\* that matches and yields a calendar date, and absent exactly when no family
\* does; a family matching with invalid digits does not stop a later one.
C4_FirstValidFamily == ret.done => ret.val = FirstValidFamily(arg)

\* C5: every row normalize_table returns, and so every row of the master
\* dataset, has an opis that is non-empty after trimming and whose trimmed value
\* is, case-insensitively, none of "opis", "stavka", "naziv".
C5_OpisInvariant ==
    LET Good(opis) == Strip(opis) # <<>> /\ Lower(Strip(opis)) \notin HeaderLabels
    IN  /\ ret.done => \A k \in DOMAIN ret.val.frame.rows : Good(ret.val.frame.rows[k].opis)
        /\ pc = "returned" => \A k \in DOMAIN result.rows : Good(result.rows[k].opis)

\* the rows of a table whose cell under the resolved description column holds a
\* text that is not only whitespace
RowsWithDescription(df) ==
    LET columns == RenameColumns(df.columns)
        c == find_col(columns, DescOptions)
    IN  {k \in DOMAIN df.data :
            LET cell == CellOf(columns, df.data[k], c.col)
            IN  ~cell.na /\ Strip(cell.s) # <<>>}

\* C6: no source row with an empty or whitespace-only description cell reaches
\* the output: the retained rows are never more than the source rows that have
\* a description text.
C6_NoEmptyDescription ==
    (ret.done /\ find_col(RenameColumns(arg.df.columns), DescOptions).found)
        => Len(ret.val.frame.rows) <= Cardinality(RowsWithDescription(arg.df))

\* the sheet of the scenario: the header, one data row, the header again
ScenarioSheet == Sheet("List1", TRUE, HeaderNaziv, <<RowBeton, RowHeaderRepeat>>)
IsScenario == Len(zip.entries) = 1 /\ zip.entries[1].sheets = <<ScenarioSheet>>

\* exactly one row, the Beton item
OneBetonRow(rows) ==
    /\ Len(rows) = 1
    /\ rows[1].opis = <<"B","e","t","o","n">>
    /\ rows[1].jm = <<"m","3">>
    /\ rows[1].kolicina = [na |-> FALSE, n |-> 2]
    /\ rows[1].jed_cijena = [na |-> FALSE, n |-> 100]
    /\ rows[1].iznos = [na |-> FALSE, n |-> 200]

\* C7 as stated: read_xlsx_bytes, given the scenario sheet, yields exactly the
\* one Beton row; the repeated header row is dropped, not the sheet.
C7_Scenario == (IsScenario /\ Len(frames) >= 1) => OneBetonRow(frames[1].rows)

\* C7 as amended: normalize_table applied to the scenario's table yields exactly
\* the one Beton row (the repeated header row is dropped); read_xlsx_bytes never
\* passes that sheet to normalize_table, because it has only 2 rows under its
\* header, and returns no row for it.
C7_ScenarioAmended ==
    IsScenario =>
        /\ ret.done => ~ret.val.raised /\ OneBetonRow(ret.val.frame.rows)
        /\ passed = <<>>
        /\ Len(frames) >= 1 => frames[1].rows = <<>>

C7_Witness == IsScenario /\ ret.done /\ Len(frames) >= 1

\* the one sheet of the workbook of SpecSheet
TheSheet == zip.entries[1].sheets[1]
SheetDone == Len(zip.entries) = 1 /\ Len(zip.entries[1].sheets) = 1 /\ pc # "start" /\ j > 1
RowsWithHeader(sh) == Len(sh.data) + (IF sh.header = <<>> THEN 0 ELSE 1)

\* C9 as stated: a parseable sheet is skipped exactly when it has fewer than 3
\* rows, the header row counted with the data rows; every sheet at or above
\* that is passed to normalize_table.
C9_MinimumCountsHeader ==
    (SheetDone /\ TheSheet.parseOk) => (passed = <<>> <=> RowsWithHeader(TheSheet) < 3)

\* C9 as amended: a parseable sheet is skipped, contributing no row, exactly
\* when it has fewer than 3 data rows, the header row not counted; every sheet
\* with 3 or more data rows is passed to normalize_table.
C9_MinimumDataRows ==
    (SheetDone /\ TheSheet.parseOk) =>
        /\ passed = <<>> <=> Len(TheSheet.data) < 3
        /\ (Len(TheSheet.data) < 3 /\ Len(frames) >= 1) => frames[1].rows = <<>>

C9_Witness ==
    /\ SheetDone
    /\ TheSheet.header # <<>>
    /\ Len(TheSheet.data) = 2
    /\ passed = <<>>
    /\ Len(frames) >= 1

\* the (candidate, column) index pairs that match exactly, and by substring
ExactPairs(columns, options) ==
    {p \in (DOMAIN options) \X (DOMAIN columns) :
        Lower(Strip(columns[p[2]])) = Lower(options[p[1]])}
SubstringPairs(columns, options) ==
    {p \in (DOMAIN options) \X (DOMAIN columns) :
        Contains(Lower(columns[p[2]]), Lower(options[p[1]]))}

\* the column of the pair with the highest-priority candidate, the leftmost
\* column among those of that candidate
BestByPriority(columns, ps) ==
    LET p == CHOOSE q \in ps : \A r \in ps : q[1] < r[1] \/ (q[1] = r[1] /\ q[2] <= r[2])
    IN  columns[p[2]]

\* the leftmost column of any pair
BestByColumn(columns, ps) ==
    LET p == CHOOSE q \in ps : \A r \in ps : q[2] <= r[2]
    IN  columns[p[2]]

\* C10 as stated: with an exact match, the header of the highest-priority
\* candidate; otherwise the first header in column order containing any
\* candidate; otherwise absent.
C10_ColumnOrderFallback ==
    ret.done =>
        LET columns == RenameColumns(arg.columns)
            ex == ExactPairs(columns, arg.options)
            sub == SubstringPairs(columns, arg.options)
        IN  IF ex # {} THEN ret.val = [found |-> TRUE, col |-> BestByPriority(columns, ex)]
            ELSE IF sub # {} THEN ret.val = [found |-> TRUE, col |-> BestByColumn(columns, sub)]
            ELSE ret.val = NotFound

\* C10 as amended: with an exact match, the header of the highest-priority
\* candidate; otherwise the first header in column order that contains the
\* highest-priority candidate contained in any header; otherwise absent.  No
\* substring match is returned while an exact match exists.
C10_FindCol ==
    ret.done =>
        LET columns == RenameColumns(arg.columns)
            ex == ExactPairs(columns, arg.options)
            sub == SubstringPairs(columns, arg.options)
        IN  IF ex # {} THEN ret.val = [found |-> TRUE, col |-> BestByPriority(columns, ex)]
            ELSE IF sub # {} THEN ret.val = [found |-> TRUE, col |-> BestByPriority(columns, sub)]
            ELSE ret.val = NotFound

\* find_col returned a header by substring that is not the leftmost one
\* containing a candidate
C10_Witness ==
    /\ ret.done
    /\ ret.val.found
    /\ ExactPairs(RenameColumns(arg.columns), arg.options) = {}
    /\ ret.val.col # BestByColumn(RenameColumns(arg.columns),
                                  SubstringPairs(RenameColumns(arg.columns), arg.options))

\* the entries ingest_zip has looked at so far
Visited ==
    IF pc \in {"read", "sheets"} \/ (pc = "raised" /\ err = "ExcelFileError")
    THEN 1..i
    ELSE 1..(i - 1)

\* a name that ends in ".xlsx" whatever the case and whose last path component
\* does not begin with the lock prefix
NotLockFileXlsx(name) ==
    LET slashes == {k \in DOMAIN name : name[k] = "/"}
        base == IF slashes = {} THEN name
                ELSE SubSeq(name, (CHOOSE k \in slashes : \A m \in slashes : m <= k) + 1, Len(name))
    IN  EndsWith(Lower(name), XlsxSuffix) /\ ~StartsWith(base, LockPrefix)

\* C8: the entries handed to read_xlsx_bytes are, in archive order, exactly
\* those whose name ends in ".xlsx" whatever the case and that are no lock file
\* "~$...", also when the lock file sits inside a folder of the archive.
C8_EntrySelection ==
    handed = SelectSeq([k \in Visited |-> k],
                       LAMBDA k : NotLockFileXlsx(zip.entries[k].name))

====
